---- MODULE Spec2Model ----
(***************************************************************************)
(* Story/chapter consistency model of the admin panel's data-access layer  *)
(* (src/firebase/services/chapterService.js, storyService.js) over a       *)
(* Firestore-like document store, and of the chapter forms that call it    *)
(* (src/pages/CreateChapterPage.jsx, EditChapterPage).                     *)
(*                                                                         *)
(* Every `await` on the store is one step of the calling client; a         *)
(* runTransaction is one step (the store commits its reads and writes      *)
(* atomically).  Server timestamps are commit times: the store's clock     *)
(* `now` advances at every committed write.                                *)
(*                                                                         *)
(* Spec       the service calls of two sessions, interleaved               *)
(* SpecSeq    the same calls, one at a time                                *)
(* SpecFault  calls one at a time, with requests rejected by the store     *)
(* SpecPages  two sessions opening and saving chapter forms                *)
(* SpecNum    the next-chapter-number query over stores of numbered        *)
(*            chapters                                                     *)
(* SpecService    every service operation, reorderChapters included, one   *)
(*                call at a time                                           *)
(* SpecPublish    two sessions publishing draft chapters concurrently      *)
(* SpecProviders  one session calling through ChapterProvider and          *)
(*                StoryProvider, with store rejections                     *)
(* SpecCover      createStory / updateStory with a cover image upload      *)
(* SpecAuth       AuthProvider, localStorage, ProtectedRoute and the login *)
(*                form of one page                                         *)
(***************************************************************************)
EXTENDS Integers, Sequences, FiniteSets, TLC

\* ------------------------------------------------------------------ bounds
MaxStories == 2
MaxChapters == 2
MaxTime == 5
MaxFaults == 1
MaxNumber == 4
\* two admin sessions, each running one service call at a time
Procs == {"A", "B"}

\* ------------------------------------------------------------------ state
VARIABLES
  stories,      \* collection 'stories':  id -> document
  chapters,     \* collection 'chapters': id -> document
  storyEdits,   \* collection 'storyEdits', in commit order
  now,          \* commit time of the latest committed write
  nextStory,    \* number of story ids the store has assigned
  nextChapter,  \* number of chapter ids the store has assigned
  pc,           \* per client: the await it is suspended at ("idle": no call)
  local,        \* per client: arguments and locals of its current/last call
  lastPublish,  \* history: per story id, commit time of the latest change of
                \* one of its chapters from a non-published status to 'published'
  detached,     \* deleteDoc calls still in flight after their Promise.all rejected
  faults,       \* number of requests the store has rejected for lack of service
  page,         \* per client: the chapter form it has open (CreateChapterPage /
                \* EditChapterPage component state)
  view,         \* per client: ChapterProvider / StoryProvider state of the session
  auth,         \* AuthProvider state and the browser's localStorage
  upload        \* uploadImageToCloudinary: the call in progress and its requests

vars == <<stories, chapters, storyEdits, now, nextStory, nextChapter, pc, local,
          lastPublish, detached, faults, page, view, auth, upload>>

\* ------------------------------------------------------------------ values
Statuses == {"draft", "published"}

\* `content` strings, as sequences of characters: '' and '<b> a' (one word once
\* the tag is removed, two whitespace-delimited tokens with it)
Contents == { <<>>, <<"<", "b", ">", " ", "a">> }

Whitespace == {" ", "\t", "\n"}

\* a chapter document or change set without a chapterNumber key; the chapter
\* sort reads it as (a.chapterNumber || 0)
NoNumber == 0

\* JavaScript truthiness of a string: only '' is falsy
Truthy(content) == content # <<>>

\* index of the first ">" of s at or after i, 0 if there is none
RECURSIVE FirstClose(_, _)
FirstClose(s, i) ==
  IF i > Len(s) THEN 0
  ELSE IF s[i] = ">" THEN i
  ELSE FirstClose(s, i + 1)

\* content.replace(/<[^>]*>/g, ''), scanning from position i
RECURSIVE StripTagsFrom(_, _)
StripTagsFrom(s, i) ==
  IF i > Len(s) THEN <<>>
  ELSE IF s[i] = "<" /\ FirstClose(s, i + 1) # 0
       THEN StripTagsFrom(s, FirstClose(s, i + 1) + 1)
       ELSE <<s[i]>> \o StripTagsFrom(s, i + 1)

StripTags(s) == StripTagsFrom(s, 1)

\* text.trim().split(/\s+/).filter(word => word.length > 0).length:
\* the number of maximal runs of non-whitespace characters
WordsOf(text) ==
  Cardinality({ i \in 1..Len(text) :
                  /\ text[i] \notin Whitespace
                  /\ (i = 1 \/ text[i - 1] \in Whitespace) })

calculateWordCount(content) ==
  IF ~Truthy(content) THEN 0 ELSE WordsOf(StripTags(content))

\* ------------------------------------------------------------------ store helpers
Exists(coll, id) == id \in DOMAIN coll

Remove(coll, id) == [k \in DOMAIN coll \ {id} |-> coll[k]]

\* getChaptersByStory(storyId): the ids of the chapters whose storyId matches
getChaptersByStory(storyId) ==
  { c \in DOMAIN chapters : chapters[c].storyId = storyId }

\* a count helper that skips its write
updateStoryChapterCount_NoWrite(storyId, chapterCount) ==
  stories

\* a count write that also stamps the story
updateStoryChapterCount_Stamps(storyId, chapterCount) ==
  [stories EXCEPT ![storyId].chapters = chapterCount, ![storyId].updatedAt = now + 1]

\* updateStoryChapterCount: updateDoc(storyRef, { chapters: chapterCount })
updateStoryChapterCount(storyId, chapterCount) ==
  [stories EXCEPT ![storyId].chapters = chapterCount]

\* a timestamp write that is dropped
TouchStory_Dropped(storyId, t) ==
  stories

\* updateDoc(storyRef, { updatedAt: serverTimestamp() }) committing at time t
TouchStory(storyId, t) ==
  [stories EXCEPT ![storyId].updatedAt = t]

\* ------------------------------------------------------------------ clients
\* op, storyId, chapterId, status, content: the call and its arguments (content
\* only while the call is in flight); count: the chapters found by the count
\* helper's query; pending: deleteDoc calls of deleteStory not yet committed
NoCall ==
  [op |-> "none", storyId |-> 0, chapterId |-> 0, status |-> "undefined",
   hasContent |-> FALSE, content |-> <<>>,
   count |-> 0, pending |-> {}, result |-> "none"]

\* the form a client has open: kind "none" (no chapter form), "create"
\* (CreateChapterPage) or "edit" (EditChapterPage); an open form also holds
\* storyId, chapterId, chapterNumber (the number field) and storyChapters, the
\* chapter list loaded when the form was opened, as {id, chapterNumber} pairs
NoPage ==
  [kind |-> "none"]

\* no AuthProvider and no upload in the model's scope
NoAuth ==
  [kind |-> "none"]

NoUpload ==
  [kind |-> "none"]

Idle(p) == pc[p] = "idle"

Quiescent == \A p \in Procs : Idle(p)

\* a new call may start while the clock is below its cap
CanCall(p) == Idle(p) /\ now < MaxTime

Begin(op, storyId, chapterId, status) ==
  [op |-> op, storyId |-> storyId, chapterId |-> chapterId, status |-> status,
   hasContent |-> FALSE, content |-> <<>>,
   count |-> 0, pending |-> {}, result |-> "pending"]

\* ---- ChapterProvider / StoryProvider (contexts/ChapterContext.jsx, StoryContext)
\* A session whose providers are mounted makes its calls through them: the
\* provider function awaits the service call and runs on with its result.
\* mounted: the providers exist; loading: the ChapterProvider's `loading` flag;
\* chapters: the ids of the ChapterProvider's `chapters` state; and of the
\* current (or last) provider call: calls, the service invocations it made,
\* errors, its toast.error notifications, thrown, whether it rethrew to its
\* caller; failed: some provider call has failed since the chapters were loaded
NoView ==
  [mounted |-> FALSE]

\* the service operations the providers wrap: addStory, updateStoryById,
\* deleteStoryById, addChapter, updateChapterById, deleteChapterById
ProviderOps ==
  {"createStory", "updateStory", "deleteStory",
   "createChapter", "updateChapter", "deleteChapter"}

Wrapped(v, op) == v.mounted /\ op \in ProviderOps

\* a provider function up to its await: setLoading(true), then the service call
ProviderCalls(v, op) ==
  IF Wrapped(v, op)
  THEN [v EXCEPT !.loading = TRUE, !.calls = 1, !.errors = 0, !.thrown = FALSE]
  ELSE v

\* the `chapters` state after a successful provider call: addChapter prepends
\* the created chapter, deleteChapterById filters the deleted id out,
\* updateChapterById maps over the list, the StoryProvider's functions do not
\* touch it
ChaptersAfter(ids, rec) ==
  CASE rec.op = "createChapter" -> ids \cup {rec.chapterId}
    [] rec.op = "deleteChapter" -> ids \ {rec.chapterId}
    [] OTHER -> ids

\* a catch block that retries the service call once before it gives up
ProviderSettles_Retries(v, rec, result) ==
  IF ~Wrapped(v, rec.op) THEN v
  ELSE IF result = "ok"
  THEN [v EXCEPT !.loading = FALSE, !.chapters = ChaptersAfter(@, rec)]
  ELSE [v EXCEPT !.loading = FALSE, !.calls = @ + 1, !.errors = @ + 1,
                 !.thrown = TRUE, !.failed = TRUE]

\* a provider function from its await on: the try block's setChapters and
\* toast.success, or the catch block's setError, toast.error and `throw err`;
\* finally setLoading(false)
ProviderSettles(v, rec, result) ==
  IF ~Wrapped(v, rec.op) THEN v
  ELSE IF result = "ok"
  THEN [v EXCEPT !.loading = FALSE, !.chapters = ChaptersAfter(@, rec)]
  ELSE [v EXCEPT !.loading = FALSE, !.errors = @ + 1, !.thrown = TRUE, !.failed = TRUE]

\* the provider state of client p once it has made the call (when the step
\* starts one)
ViewInCall(p, rec) ==
  IF Idle(p) THEN ProviderCalls(view[p], rec.op) ELSE view[p]

\* the call returns (resolved "ok", or rejected "error"), the provider function
\* awaiting it runs to its end, and the client is idle again
Return(p, rec, result) ==
  /\ pc' = [pc EXCEPT ![p] = "idle"]
  /\ local' = [local EXCEPT ![p] = [rec EXCEPT !.hasContent = FALSE, !.content = <<>>,
                                                 !.count = 0, !.pending = {}, !.result = result]]
  /\ view' = [view EXCEPT ![p] = ProviderSettles(ViewInCall(p, rec), rec, result)]

Goto(p, rec, label) ==
  /\ pc' = [pc EXCEPT ![p] = label]
  /\ local' = [local EXCEPT ![p] = rec]
  /\ view' = [view EXCEPT ![p] = ViewInCall(p, rec)]

\* history: a chapter of story s became published at commit time t
NotePublish(s, t) ==
  IF s \in DOMAIN lastPublish THEN [lastPublish EXCEPT ![s] = t] ELSE lastPublish

Init ==
  /\ stories = <<>>
  /\ chapters = <<>>
  /\ storyEdits = <<>>
  /\ now = 0
  /\ nextStory = 0
  /\ nextChapter = 0
  /\ pc = [p \in Procs |-> "idle"]
  /\ local = [p \in Procs |-> NoCall]
  /\ lastPublish = [s \in 1..MaxStories |-> 0]
  /\ detached = {}
  /\ faults = 0
  /\ page = [p \in Procs |-> NoPage]
  /\ view = [p \in Procs |-> NoView]
  /\ auth = NoAuth
  /\ upload = NoUpload

\* ------------------------------------------------------------------ createStory
\* createStory(storyData) without a cover image: one addDoc
CreateStory(p) ==
  /\ CanCall(p)
  /\ nextStory < MaxStories
  /\ LET id == nextStory + 1
         t  == now + 1
     IN /\ stories' = (id :> [chapters |-> 0, updatedAt |-> t]) @@ stories
        /\ nextStory' = id
        /\ now' = t
        /\ Return(p, Begin("createStory", id, 0, "undefined"), "ok")
  /\ UNCHANGED <<chapters, storyEdits, nextChapter, lastPublish, detached, page, faults, auth, upload>>

\* ------------------------------------------------------------------ createChapter
\* createChapter(chapterData) up to its first await: addDoc(collection 'chapters')
CreateChapterAdd(p, storyId, chapterNumber, status, content) ==
  /\ CanCall(p)
  /\ nextChapter < MaxChapters
  /\ LET id == nextChapter + 1
         t  == now + 1
     IN /\ chapters' = (id :> [storyId |-> storyId, chapterNumber |-> chapterNumber,
                               status |-> status, content |-> content,
                               wordCount |-> calculateWordCount(content),
                               updatedAt |-> t]) @@ chapters
        /\ nextChapter' = id
        /\ now' = t
        /\ lastPublish' = IF status = "published" THEN NotePublish(storyId, t)
                          ELSE lastPublish
        /\ Goto(p, [Begin("createChapter", storyId, id, status)
                       EXCEPT !.hasContent = TRUE, !.content = content], "count_query")
  /\ UNCHANGED <<stories, storyEdits, nextStory, detached, page, faults, auth, upload>>

\* updateStoryChapterCountForStory, first await: getChaptersByStory(storyId)
CountQuery(p) ==
  /\ pc[p] = "count_query"
  /\ Goto(p, [local[p] EXCEPT !.count = Cardinality(getChaptersByStory(local[p].storyId))],
          "count_write")
  /\ UNCHANGED <<stories, chapters, storyEdits, now, nextStory, nextChapter, lastPublish, detached, page, faults, auth, upload>>

\* createChapter stamping the story whatever the new chapter's status
AfterCount_AlwaysTouch(p) ==
  IF local[p].op = "createChapter"
  THEN Goto(p, local[p], "cc_touch")
  ELSE Return(p, local[p], "ok")

\* createChapter never stamping the story
AfterCount_NeverTouch(p) ==
  Return(p, local[p], "ok")

\* where createChapter / deleteChapter continue after the count helper returned
\* (the helper swallows its own failure)
AfterCount(p) ==
  IF local[p].op = "createChapter" /\ local[p].status = "published"
  THEN Goto(p, local[p], "cc_touch")
  ELSE Return(p, local[p], "ok")

\* updateStoryChapterCountForStory, second await: updateStoryChapterCount(storyId, n);
\* updateDoc rejects when the story document is missing, and the helper's catch
\* logs and suppresses that
CountWrite(p) ==
  /\ pc[p] = "count_write"
  /\ IF Exists(stories, local[p].storyId)
     THEN /\ stories' = updateStoryChapterCount(local[p].storyId, local[p].count)
          /\ now' = now + 1
     ELSE UNCHANGED <<stories, now>>
  /\ AfterCount(p)
  /\ UNCHANGED <<chapters, storyEdits, nextStory, nextChapter, lastPublish, detached, page, faults, auth, upload>>

\* createChapter, status 'published': updateDoc(storyRef, { updatedAt: serverTimestamp() })
CreateChapterTouch(p) ==
  /\ pc[p] = "cc_touch"
  /\ IF Exists(stories, local[p].storyId)
     THEN /\ stories' = TouchStory(local[p].storyId, now + 1)
          /\ now' = now + 1
          /\ Return(p, local[p], "ok")
     ELSE /\ UNCHANGED <<stories, now>>
          /\ Return(p, local[p], "error")
  /\ UNCHANGED <<chapters, storyEdits, nextStory, nextChapter, lastPublish, detached, page, faults, auth, upload>>

\* ------------------------------------------------------------------ deleteChapter
\* a deleteChapter that deletes before it reads: the read then finds nothing
DeleteChapterGet_DeleteFirst(p, chapterId) ==
  /\ CanCall(p)
  /\ chapters' = Remove(chapters, chapterId)
  /\ now' = now + 1
  /\ Return(p, Begin("deleteChapter", 0, chapterId, "undefined"), "error")
  /\ UNCHANGED <<stories, storyEdits, nextStory, nextChapter, lastPublish, detached, page, faults, auth, upload>>

\* deleteChapter(chapterId) up to its first await: getChapterById(chapterId),
\* which throws 'Chapter not found' when the document does not exist
DeleteChapterGet(p, chapterId) ==
  /\ CanCall(p)
  /\ IF Exists(chapters, chapterId)
     THEN Goto(p, Begin("deleteChapter", chapters[chapterId].storyId, chapterId, "undefined"),
               "dc_delete")
     ELSE Return(p, Begin("deleteChapter", 0, chapterId, "undefined"), "error")
  /\ UNCHANGED <<stories, chapters, storyEdits, now, nextStory, nextChapter, lastPublish, detached, page, faults, auth, upload>>

\* deleteChapter: deleteDoc(chapterRef); deleting a missing document succeeds
DeleteChapterDelete(p) ==
  /\ pc[p] = "dc_delete"
  /\ chapters' = Remove(chapters, local[p].chapterId)
  /\ now' = now + 1
  /\ Goto(p, local[p], "count_query")
  /\ UNCHANGED <<stories, storyEdits, nextStory, nextChapter, lastPublish, detached, page, faults, auth, upload>>

\* ------------------------------------------------------------------ updateChapter
\* updateData: `status` is "undefined" when the key is absent; `content` is given
\* only when hasContent; `chapterNumber` is NoNumber when the key is absent (the
\* change sets of the service-level calls carry none)
UpdateDatas ==
  { u \in [status : {"undefined"} \cup Statuses, hasContent : BOOLEAN, content : Contents,
           chapterNumber : {NoNumber}] :
      ~u.hasContent => u.content = <<>> }

\* a bump on every update that sets 'published', whatever the old status
IsPublishTransition_IgnoresOld(oldStatus, newStatus) ==
  newStatus = "published"

\* the condition under which the transaction also writes the parent story
IsPublishTransition(oldStatus, newStatus) ==
  newStatus = "published" /\ oldStatus # "published"

\* an edit-log entry on every update
LogsEdit_Always(updateData) == TRUE

\* the condition under which the transaction also writes an edit-log entry
LogsEdit(updateData) == Truthy(updateData.content)

\* chapterToUpdate merged into the stored document by transaction.update,
\* undefined keys dropped, committing at time t
ChapterAfterUpdate(old, updateData, t) ==
  [old EXCEPT
     !.chapterNumber = IF updateData.chapterNumber # NoNumber
                       THEN updateData.chapterNumber ELSE @,
     !.status    = IF updateData.status # "undefined" THEN updateData.status ELSE @,
     !.content   = IF updateData.hasContent THEN updateData.content ELSE @,
     !.wordCount = IF Truthy(updateData.content)
                   THEN calculateWordCount(updateData.content) ELSE @,
     !.updatedAt = t]

\* the storyEdits document set by the transaction
EditLogEntry(storyId, chapterId, t) ==
  [storyId |-> storyId, chapterId |-> chapterId, editedAt |-> t]

\* the chapter write alone, outside a transaction: the derived writes are not
\* part of the same commit
UpdateChapterCommit_ChapterOnly(chapterId, updateData, t) ==
  /\ chapters' = [chapters EXCEPT ![chapterId] = ChapterAfterUpdate(chapters[chapterId], updateData, t)]
  /\ now' = t
  /\ UNCHANGED <<stories, storyEdits, lastPublish>>

\* the writes of updateChapter's transaction, committed together at time t
UpdateChapterCommit(chapterId, updateData, t) ==
  LET old  == chapters[chapterId]
      bump == IsPublishTransition(old.status, updateData.status)
  IN /\ chapters' = [chapters EXCEPT ![chapterId] = ChapterAfterUpdate(old, updateData, t)]
     /\ stories' = IF bump THEN TouchStory(old.storyId, t) ELSE stories
     /\ storyEdits' = IF LogsEdit(updateData)
                      THEN Append(storyEdits, EditLogEntry(old.storyId, chapterId, t))
                      ELSE storyEdits
     /\ lastPublish' = IF bump THEN NotePublish(old.storyId, t) ELSE lastPublish
     /\ now' = t

\* the call record of updateChapter(chapterId, updateData); storyId is the one
\* the transaction reads from the chapter (0 when there is no such chapter)
UpdateChapterCall(chapterId, updateData) ==
  [Begin("updateChapter",
         IF Exists(chapters, chapterId) THEN chapters[chapterId].storyId ELSE 0,
         chapterId, updateData.status)
     EXCEPT !.hasContent = updateData.hasContent, !.content = updateData.content]

\* a failed transaction that is reported as a success
UpdateChapterRejects_Resolves(p, rec) ==
  /\ UNCHANGED <<stories, chapters, storyEdits, now, lastPublish>>
  /\ Return(p, rec, "ok")

\* the transaction failed: nothing of it is committed, and the catch block
\* rethrows to the caller
UpdateChapterRejects(p, rec) ==
  /\ UNCHANGED <<stories, chapters, storyEdits, now, lastPublish>>
  /\ Return(p, rec, "error")

\* a commit that goes through although one of its writes has no document to update
TransactionCommits_SkipsFailedWrite(chapterId, updateData) ==
  Exists(chapters, chapterId)

\* whether the transaction commits: the callback throws 'Chapter not found' for
\* a missing chapter, and transaction.update of a story document that does not
\* exist fails the commit as a whole
TransactionCommits(chapterId, updateData) ==
  /\ Exists(chapters, chapterId)
  /\ (IsPublishTransition(chapters[chapterId].status, updateData.status)
        => Exists(stories, chapters[chapterId].storyId))

\* updateChapter(chapterId, updateData) up to the end of runTransaction: the
\* callback throws 'Chapter not found' for a missing chapter, and the commit
\* fails as a whole when it updates a story document that does not exist
UpdateChapterTxn(p, chapterId, updateData) ==
  /\ CanCall(p)
  /\ LET rec == UpdateChapterCall(chapterId, updateData)
     IN IF TransactionCommits(chapterId, updateData)
        THEN /\ UpdateChapterCommit(chapterId, updateData, now + 1)
             /\ Goto(p, rec, "uc_reread")
        ELSE UpdateChapterRejects(p, rec)
  /\ UNCHANGED <<nextStory, nextChapter, detached, page, faults, auth, upload>>

\* updateChapter: return await getChapterById(chapterId)
UpdateChapterReread(p) ==
  /\ pc[p] = "uc_reread"
  /\ Return(p, local[p], IF Exists(chapters, local[p].chapterId) THEN "ok" ELSE "error")
  /\ UNCHANGED <<stories, chapters, storyEdits, now, nextStory, nextChapter, lastPublish, detached, page, faults, auth, upload>>

\* ------------------------------------------------------------------ publishChapters
\* publishChapters(chapterIds): one transaction of blind updates; it fails as a
\* whole when one of the documents does not exist
PublishChapters(p, chapterIds) ==
  /\ CanCall(p)
  /\ LET rec == Begin("publishChapters", 0, 0, "published")
         t   == now + 1
     IN IF \A c \in chapterIds : Exists(chapters, c)
        THEN /\ chapters' = [c \in DOMAIN chapters |->
                               IF c \in chapterIds
                               THEN [chapters[c] EXCEPT !.status = "published", !.updatedAt = t]
                               ELSE chapters[c]]
             /\ lastPublish' = [s \in DOMAIN lastPublish |->
                                  IF \E c \in chapterIds : /\ chapters[c].storyId = s
                                                           /\ chapters[c].status # "published"
                                  THEN t ELSE lastPublish[s]]
             /\ now' = t
             /\ Return(p, rec, "ok")
        ELSE /\ UNCHANGED <<chapters, lastPublish, now>>
             /\ Return(p, rec, "error")
  /\ UNCHANGED <<stories, storyEdits, nextStory, nextChapter, detached, page, faults, auth, upload>>

\* ------------------------------------------------------------------ deleteStory
\* a deleteStory that deletes the story document without its chapters
DeleteStoryQuery_NoCascade(p, storyId) ==
  /\ CanCall(p)
  /\ Goto(p, Begin("deleteStory", storyId, 0, "undefined"), "ds_story")
  /\ UNCHANGED <<stories, chapters, storyEdits, now, nextStory, nextChapter, lastPublish, detached, page, faults, auth, upload>>

\* deleteStory(storyId) up to the first await of deleteChaptersByStoryId:
\* getChaptersByStory(storyId); the deleteDoc calls are then all issued at once
DeleteStoryQuery(p, storyId) ==
  /\ CanCall(p)
  /\ LET found == getChaptersByStory(storyId)
     IN Goto(p, [Begin("deleteStory", storyId, 0, "undefined") EXCEPT !.pending = found],
             IF found = {} THEN "ds_story" ELSE "ds_chapters")
  /\ UNCHANGED <<stories, chapters, storyEdits, now, nextStory, nextChapter, lastPublish, detached, page, faults, auth, upload>>

\* one of the deleteDoc calls under Promise.all commits (in any order)
DeleteStoryChapter(p, chapterId) ==
  /\ pc[p] = "ds_chapters"
  /\ chapterId \in local[p].pending
  /\ chapters' = Remove(chapters, chapterId)
  /\ now' = now + 1
  /\ LET rest == local[p].pending \ {chapterId}
     IN Goto(p, [local[p] EXCEPT !.pending = rest],
             IF rest = {} THEN "ds_story" ELSE "ds_chapters")
  /\ UNCHANGED <<stories, storyEdits, nextStory, nextChapter, lastPublish, detached, page, faults, auth, upload>>

\* deleteStory: deleteDoc(storyRef)
DeleteStoryDoc(p) ==
  /\ pc[p] = "ds_story"
  /\ stories' = Remove(stories, local[p].storyId)
  /\ now' = now + 1
  /\ Return(p, local[p], "ok")
  /\ UNCHANGED <<chapters, storyEdits, nextStory, nextChapter, lastPublish, detached, page, faults, auth, upload>>

\* ------------------------------------------------------------------ updateStory
\* updateStory(storyId, updateData) without a cover image, up to its first await:
\* updateDoc(storyRef, { ...updateData, updatedAt: serverTimestamp() }), which
\* rejects when the story document is missing
UpdateStoryDoc(p, storyId) ==
  /\ CanCall(p)
  /\ IF Exists(stories, storyId)
     THEN /\ stories' = TouchStory(storyId, now + 1)
          /\ now' = now + 1
          /\ Goto(p, Begin("updateStory", storyId, 0, "undefined"), "us_reread")
     ELSE /\ UNCHANGED <<stories, now>>
          /\ Return(p, Begin("updateStory", storyId, 0, "undefined"), "error")
  /\ UNCHANGED <<chapters, storyEdits, nextStory, nextChapter, lastPublish, detached, page, faults, auth, upload>>

\* updateStory: return await getStoryById(storyId)
UpdateStoryReread(p) ==
  /\ pc[p] = "us_reread"
  /\ Return(p, local[p], IF Exists(stories, local[p].storyId) THEN "ok" ELSE "error")
  /\ UNCHANGED <<stories, chapters, storyEdits, now, nextStory, nextChapter, lastPublish, detached, page, faults, auth, upload>>

\* ------------------------------------------------------------------ specification
\* a client starts a call (and runs it up to its first await)
Call(p) ==
  \/ CreateStory(p)
  \/ \E s \in 1..nextStory, st \in Statuses, c \in Contents :
       CreateChapterAdd(p, s, NoNumber, st, c)
  \/ \E c \in 1..nextChapter : DeleteChapterGet(p, c)
  \/ \E c \in 1..nextChapter, u \in UpdateDatas : UpdateChapterTxn(p, c, u)
  \/ \E ids \in SUBSET (1..nextChapter) \ {{}} : PublishChapters(p, ids)
  \/ \E s \in 1..nextStory : DeleteStoryQuery(p, s)
  \/ \E s \in 1..nextStory : UpdateStoryDoc(p, s)

\* a client's pending await completes
Step(p) ==
  \/ CountQuery(p)
  \/ CountWrite(p)
  \/ CreateChapterTouch(p)
  \/ DeleteChapterDelete(p)
  \/ UpdateChapterReread(p)
  \/ \E c \in 1..nextChapter : DeleteStoryChapter(p, c)
  \/ DeleteStoryDoc(p)
  \/ UpdateStoryReread(p)

Next == \E p \in Procs : Call(p) \/ Step(p)

Spec == Init /\ [][Next]_vars

\* the same calls, run one at a time: a call starts only when no call is in flight
SeqNext == \E p \in Procs : (Quiescent /\ Call(p)) \/ Step(p)

SpecSeq == Init /\ [][SeqNext]_vars

\* ------------------------------------------------------------------ reorderChapters
\* chapterOrders: the {id, chapterNumber} pairs of a reorder, as a function from
\* the ids it lists to their new numbers
ChapterOrders ==
  UNION { [ids -> 1..MaxChapters] : ids \in SUBSET (1..nextChapter) \ {{}} }

\* a reorder that also clears the edit log of the chapters it renumbers
ReorderChaptersCommit_ClearsLog(chapterOrders, t) ==
  /\ chapters' = [c \in DOMAIN chapters |->
                    IF c \in DOMAIN chapterOrders
                    THEN [chapters[c] EXCEPT !.chapterNumber = chapterOrders[c],
                                             !.updatedAt = t]
                    ELSE chapters[c]]
  /\ storyEdits' = SelectSeq(storyEdits, LAMBDA e : e.chapterId \notin DOMAIN chapterOrders)
  /\ now' = t

\* the writes of reorderChapters' transaction, committed together at time t:
\* transaction.update(docRef, { chapterNumber, updatedAt: serverTimestamp() })
\* for every pair
ReorderChaptersCommit(chapterOrders, t) ==
  /\ chapters' = [c \in DOMAIN chapters |->
                    IF c \in DOMAIN chapterOrders
                    THEN [chapters[c] EXCEPT !.chapterNumber = chapterOrders[c],
                                             !.updatedAt = t]
                    ELSE chapters[c]]
  /\ storyEdits' = storyEdits
  /\ now' = t

\* reorderChapters(storyId, chapterOrders): one transaction of blind updates
\* (storyId is not used); it fails as a whole when one of the documents does
\* not exist
ReorderChapters(p, storyId, chapterOrders) ==
  /\ CanCall(p)
  /\ LET rec == Begin("reorderChapters", storyId, 0, "undefined")
     IN IF \A c \in DOMAIN chapterOrders : Exists(chapters, c)
        THEN /\ ReorderChaptersCommit(chapterOrders, now + 1)
             /\ Return(p, rec, "ok")
        ELSE /\ UNCHANGED <<chapters, storyEdits, now>>
             /\ Return(p, rec, "error")
  /\ UNCHANGED <<stories, nextStory, nextChapter, lastPublish, detached, page, faults, auth, upload>>

\* every operation of the chapter and story services, the calls of the two
\* sessions run one at a time
ServiceNext ==
  \E p \in Procs :
    \/ Quiescent /\ Call(p)
    \/ Quiescent /\ \E s \in 1..nextStory, o \in ChapterOrders : ReorderChapters(p, s, o)
    \/ Step(p)

SpecService == Init /\ [][ServiceNext]_vars

\* ------------------------------------------------------------------ concurrent publishing
\* the change set { status: 'published' }
PublishUpdate ==
  [status |-> "published", hasContent |-> FALSE, content |-> <<>>, chapterNumber |-> NoNumber]

\* two sessions that create stories and draft chapters and publish chapters with
\* updateChapter, their calls interleaved at every await
PublishNext ==
  \E p \in Procs :
    \/ CreateStory(p)
    \/ \E s \in 1..nextStory : CreateChapterAdd(p, s, NoNumber, "draft", <<>>)
    \/ CountQuery(p)
    \/ CountWrite(p)
    \/ \E c \in 1..nextChapter : UpdateChapterTxn(p, c, PublishUpdate)
    \/ UpdateChapterReread(p)

SpecPublish == Init /\ [][PublishNext]_vars

\* ------------------------------------------------------------------ store failures
\* The store may reject any request (unavailable, permission denied, contention).
\* The actions below are the rejections of the requests whose failure handling
\* the service spells out; SpecFault adds them to calls run one at a time.

\* the store rejects a request
Reject ==
  /\ faults < MaxFaults
  /\ faults' = faults + 1

\* runTransaction of updateChapter rejects (its retries on contention with a
\* concurrent transaction are exhausted, or the store is unavailable): nothing
\* is committed
UpdateChapterAbort(p, chapterId, updateData) ==
  /\ CanCall(p)
  /\ Reject
  /\ UpdateChapterRejects(p, UpdateChapterCall(chapterId, updateData))
  /\ UNCHANGED <<nextStory, nextChapter, detached, page, auth, upload>>

\* a count failure that is rethrown to the caller
CountFails_Rethrows(p) ==
  Return(p, local[p], "error")

\* updateStoryChapterCountForStory's catch: the failure is logged and the helper
\* returns normally to createChapter / deleteChapter
CountFails(p) ==
  AfterCount(p)

\* the chapter query of the count helper rejects
CountQueryFails(p) ==
  /\ pc[p] = "count_query"
  /\ Reject
  /\ CountFails(p)
  /\ UNCHANGED <<stories, chapters, storyEdits, now, nextStory, nextChapter, lastPublish, detached, page, auth, upload>>

\* the count write of the count helper rejects
CountWriteFails(p) ==
  /\ pc[p] = "count_write"
  /\ Reject
  /\ CountFails(p)
  /\ UNCHANGED <<stories, chapters, storyEdits, now, nextStory, nextChapter, lastPublish, detached, page, auth, upload>>

\* a cascade that ignores a rejected deleteDoc and goes on to the story
DeleteStoryChapterFails_Continues(p, chapterId) ==
  /\ pc[p] = "ds_chapters"
  /\ chapterId \in local[p].pending
  /\ Reject
  /\ LET rest == local[p].pending \ {chapterId}
     IN Goto(p, [local[p] EXCEPT !.pending = rest],
             IF rest = {} THEN "ds_story" ELSE "ds_chapters")
  /\ UNCHANGED <<stories, chapters, storyEdits, now, nextStory, nextChapter, lastPublish, detached, page, auth, upload>>

\* one deleteDoc under deleteStory's Promise.all rejects: Promise.all rejects at
\* once, deleteChaptersByStoryId and deleteStory rethrow, and the story's
\* deleteDoc is never issued; the other deleteDoc calls stay in flight
DeleteStoryChapterFails(p, chapterId) ==
  /\ pc[p] = "ds_chapters"
  /\ chapterId \in local[p].pending
  /\ Reject
  /\ detached' = detached \cup (local[p].pending \ {chapterId})
  /\ Return(p, local[p], "error")
  /\ UNCHANGED <<stories, chapters, storyEdits, now, nextStory, nextChapter, lastPublish, page, auth, upload>>

\* a deleteDoc left in flight commits
DetachedDeleteCommits(chapterId) ==
  /\ chapterId \in detached
  /\ chapters' = Remove(chapters, chapterId)
  /\ now' = now + 1
  /\ detached' = detached \ {chapterId}
  /\ UNCHANGED <<stories, storyEdits, nextStory, nextChapter, pc, local, lastPublish, faults, page, view, auth, upload>>

\* a deleteDoc left in flight rejects
DetachedDeleteFails(chapterId) ==
  /\ chapterId \in detached
  /\ Reject
  /\ detached' = detached \ {chapterId}
  /\ UNCHANGED <<stories, chapters, storyEdits, now, nextStory, nextChapter, pc, local, lastPublish, page, view, auth, upload>>

\* a call that fails at its first request
FaultCall(p) ==
  \E c \in 1..nextChapter, u \in UpdateDatas : UpdateChapterAbort(p, c, u)

\* a pending await is rejected
FaultStep(p) ==
  \/ CountQueryFails(p)
  \/ CountWriteFails(p)
  \/ \E c \in 1..nextChapter : DeleteStoryChapterFails(p, c)

\* the session that makes the calls while the store rejects requests
Admin == CHOOSE p \in Procs : TRUE

\* calls start one at a time: Admin makes any call, and any session may invoke
\* deleteStory (an operator re-invoking it after a failure); the deleteDoc calls
\* left in flight by a failed deleteStory settle at any later time
FaultNext ==
  \/ Quiescent /\ (Call(Admin) \/ FaultCall(Admin))
  \/ \E p \in Procs :
       \/ Quiescent /\ \E s \in 1..nextStory : DeleteStoryQuery(p, s)
       \/ Step(p)
       \/ FaultStep(p)
  \/ \E c \in 1..nextChapter : DetachedDeleteCommits(c) \/ DetachedDeleteFails(c)

SpecFault == Init /\ [][FaultNext]_vars

\* ------------------------------------------------------------------ providers
\* One admin session working through its providers, with no other writer.

\* the page is (re)loaded: ChapterProvider is constructed (chapters [], loading
\* true) and its mount effect starts loadChapters; what the session was doing
\* is gone
MountProviders(p) ==
  /\ Idle(p)
  /\ view' = [view EXCEPT ![p] = [mounted |-> TRUE, loading |-> TRUE, chapters |-> {},
                                   calls |-> 0, errors |-> 0, thrown |-> FALSE,
                                   failed |-> FALSE]]
  /\ local' = [local EXCEPT ![p] = NoCall]
  /\ UNCHANGED <<stories, chapters, storyEdits, now, nextStory, nextChapter, pc, lastPublish, detached, page, faults, auth, upload>>

\* the initial load is pending
Loading(p) == view[p].mounted /\ view[p].loading /\ Idle(p)

\* loadChapters from its await on: setChapters(fetchedChapters) with the result
\* of getAllChapters(), then setLoading(false)
LoadChapters(p) ==
  /\ Loading(p)
  /\ view' = [view EXCEPT ![p] = [@ EXCEPT !.chapters = DOMAIN chapters, !.loading = FALSE]]
  /\ UNCHANGED <<stories, chapters, storyEdits, now, nextStory, nextChapter, pc, local, lastPublish, detached, page, faults, auth, upload>>

\* the initial load has finished and the session may use the providers
Ready(p) == view[p].mounted /\ ~view[p].loading /\ Idle(p)

\* a call through a provider function, up to its first await
ProviderCall(p) ==
  \/ CreateStory(p)
  \/ \E s \in 1..nextStory : UpdateStoryDoc(p, s)
  \/ \E s \in 1..nextStory : DeleteStoryQuery(p, s)
  \/ \E s \in 1..nextStory, st \in Statuses, c \in Contents :
       CreateChapterAdd(p, s, NoNumber, st, c)
  \/ \E c \in 1..nextChapter, u \in UpdateDatas : UpdateChapterTxn(p, c, u)
  \/ \E c \in 1..nextChapter : DeleteChapterGet(p, c)

ProviderNext ==
  \/ MountProviders(Admin)
  \/ LoadChapters(Admin)
  \/ Ready(Admin) /\ (ProviderCall(Admin) \/ FaultCall(Admin))
  \/ Step(Admin)
  \/ FaultStep(Admin)
  \/ \E c \in 1..nextChapter : DetachedDeleteCommits(c) \/ DetachedDeleteFails(c)

SpecProviders == Init /\ [][ProviderNext]_vars

\* ------------------------------------------------------------------ cover images
\* uploadImageToCloudinary (firebase/utils/cloudinaryUtils.js) and the calls of
\* createStory / updateStory that carry a cover image file.  One request of an
\* upload is one step: fetch and response.json() resolve, or one of them fails.

\* allowedTypes
AllowedTypes == {"image/jpeg", "image/jpg", "image/png", "image/webp"}

\* maxSize, in bytes
MaxFileSize == 5 * 1024 * 1024

\* image files: an allowed and a refused type, at the size limit and above it
Files == [type : {"image/png", "image/gif"}, size : {MaxFileSize, MaxFileSize + 1}]

\* the validation at the head of uploadImageToCloudinary (the file is given)
ValidFile(file) == file.type \in AllowedTypes /\ ~(file.size > MaxFileSize)

\* CLOUDINARY_CONFIG.uploadPreset: the deployment's VITE_CLOUDINARY_UPLOAD_PRESET,
\* or 'ml_default'
Presets == {"ml_default", "site_preset"}

\* the form data of one request; folder "none": no folder field
Request(preset, folder) == [preset |-> preset, folder |-> folder]

\* the requests of the upload strategies, in the order they are tried:
\* uploadWithPreset with the configured preset, with each of fallbackPresets,
\* with the configured preset and no folder, then uploadMinimal
Strategies(preset, folder) ==
  << Request(preset, folder),
     Request("ml_default", folder), Request("upload_preset", folder),
     Request("default", folder),
     Request(preset, "none"),
     Request("ml_default", "none") >>

\* data.secure_url of the response to the n-th request of the call; NoUrl
\* while nothing has been returned
SecureUrl(n) == n

NoUrl == 0

\* uploadImageToCloudinary(file, folder) up to its first await: the validation,
\* then the first request; sent holds the requests made so far, answers their
\* outcomes; result is "ok" once the call has returned (url is what it
\* returned), "error" once it has thrown
UploadCalled(file, folder, preset) ==
  IF ValidFile(file)
  THEN [kind |-> "call", file |-> file, folder |-> folder, preset |-> preset,
        sent |-> <<Strategies(preset, folder)[1]>>, answers |-> <<>>,
        result |-> "pending", url |-> NoUrl]
  ELSE [kind |-> "call", file |-> file, folder |-> folder, preset |-> preset,
        sent |-> <<>>, answers |-> <<>>, result |-> "error", url |-> NoUrl]

\* an upload that goes on to the next strategy after a success as well
UploadAnswered_IgnoresSuccess(u, ok) ==
  LET n  == Len(u.sent)
      all == Strategies(u.preset, u.folder)
      v  == [u EXCEPT !.answers = Append(@, ok)]
  IN IF n < Len(all) THEN [v EXCEPT !.sent = Append(@, all[n + 1])]
     ELSE IF ok THEN [v EXCEPT !.result = "ok", !.url = SecureUrl(n)]
     ELSE [v EXCEPT !.result = "error"]

\* the pending request is answered: a success returns its secure_url; a failure
\* is caught and logged and the next strategy is tried, and after the last one
\* 'All upload strategies failed' is thrown
UploadAnswered(u, ok) ==
  LET n  == Len(u.sent)
      all == Strategies(u.preset, u.folder)
      v  == [u EXCEPT !.answers = Append(@, ok)]
  IN IF ok THEN [v EXCEPT !.result = "ok", !.url = SecureUrl(n)]
     ELSE IF n < Len(all) THEN [v EXCEPT !.sent = Append(@, all[n + 1])]
     ELSE [v EXCEPT !.result = "error"]

\* no upload is in progress
UploadFree == IF upload.kind = "none" THEN TRUE ELSE upload.result # "pending"

\* a call that goes on to its store write when the upload has thrown
AfterUpload_IgnoresFailure(p, rec, u, label) ==
  IF u.result = "pending" THEN Goto(p, rec, "upload")
  ELSE Goto(p, rec, label)

\* how a call carrying a cover image goes on from the upload: to the store
\* write once the URL is there, to its catch block when the upload threw
AfterUpload(p, rec, u, label) ==
  IF u.result = "pending" THEN Goto(p, rec, "upload")
  ELSE IF u.result = "error" THEN Return(p, rec, "error")
  ELSE Goto(p, rec, label)

\* where the call of rec continues after its upload
WriteLabel(rec) == IF rec.op = "createStory" THEN "cs_add" ELSE "us_write"

\* createStory(storyData, coverImageFile) up to its first await:
\* uploadImageToCloudinary(coverImageFile, 'stories')
CreateStoryUpload(p, file, preset) ==
  /\ CanCall(p)
  /\ UploadFree
  /\ nextStory < MaxStories
  /\ upload' = UploadCalled(file, "stories", preset)
  /\ LET rec == Begin("createStory", 0, 0, "undefined")
     IN AfterUpload(p, rec, upload', WriteLabel(rec))
  /\ UNCHANGED <<stories, chapters, storyEdits, now, nextStory, nextChapter, lastPublish, detached, page, faults, auth>>

\* updateStory(storyId, updateData, coverImageFile) up to its first await:
\* uploadImageToCloudinary(coverImageFile, 'stories')
UpdateStoryUpload(p, storyId, file, preset) ==
  /\ CanCall(p)
  /\ UploadFree
  /\ upload' = UploadCalled(file, "stories", preset)
  /\ LET rec == Begin("updateStory", storyId, 0, "undefined")
     IN AfterUpload(p, rec, upload', WriteLabel(rec))
  /\ UNCHANGED <<stories, chapters, storyEdits, now, nextStory, nextChapter, lastPublish, detached, page, faults, auth>>

\* the pending request of the call's upload is answered
UploadResponds(p, ok) ==
  /\ pc[p] = "upload"
  /\ upload' = UploadAnswered(upload, ok)
  /\ AfterUpload(p, local[p], upload', WriteLabel(local[p]))
  /\ UNCHANGED <<stories, chapters, storyEdits, now, nextStory, nextChapter, lastPublish, detached, page, faults, auth>>

\* createStory with a cover image: addDoc(collection 'stories', storyToCreate)
CreateStoryAdd(p) ==
  /\ pc[p] = "cs_add"
  /\ LET id == nextStory + 1
         t  == now + 1
     IN /\ stories' = (id :> [chapters |-> 0, updatedAt |-> t]) @@ stories
        /\ nextStory' = id
        /\ now' = t
        /\ Return(p, [local[p] EXCEPT !.storyId = id], "ok")
  /\ UNCHANGED <<chapters, storyEdits, nextChapter, lastPublish, detached, page, faults, auth, upload>>

\* updateStory with a cover image: updateDoc(storyRef, storyToUpdate), which
\* rejects when the story document is missing
UpdateStoryWrite(p) ==
  /\ pc[p] = "us_write"
  /\ IF Exists(stories, local[p].storyId)
     THEN /\ stories' = TouchStory(local[p].storyId, now + 1)
          /\ now' = now + 1
          /\ Goto(p, local[p], "us_reread")
     ELSE /\ UNCHANGED <<stories, now>>
          /\ Return(p, local[p], "error")
  /\ UNCHANGED <<chapters, storyEdits, nextStory, nextChapter, lastPublish, detached, page, faults, auth, upload>>

\* stories created, updated and deleted, with and without a cover image, the
\* calls run one at a time
CoverNext ==
  \E p \in Procs :
    \/ Quiescent /\ CreateStory(p)
    \/ Quiescent /\ \E f \in Files, u \in Presets : CreateStoryUpload(p, f, u)
    \/ Quiescent /\ \E s \in 1..nextStory, f \in Files, u \in Presets :
                       UpdateStoryUpload(p, s, f, u)
    \/ Quiescent /\ \E s \in 1..nextStory : DeleteStoryQuery(p, s)
    \/ \E ok \in BOOLEAN : UploadResponds(p, ok)
    \/ CreateStoryAdd(p)
    \/ UpdateStoryWrite(p)
    \/ UpdateStoryReread(p)
    \/ DeleteStoryDoc(p)

SpecCover == Init /\ [][CoverNext]_vars

\* ------------------------------------------------------------------ authentication
\* AuthProvider (contexts/AuthContext.jsx) with the browser's localStorage, the
\* router's location, ProtectedRoute and the login form.  `auth` holds
\* isLoggedIn, user (<<>> for null, else <<userData>>), error, isLoading: the
\* provider's state; storage: the two localStorage keys (isLoggedIn "null" when
\* the key is absent, userData <<>> when absent); location: the current path;
\* formData: the login form's fields; last: history, the latest successful
\* login or logout with the credentials it was given.

\* ADMIN_CREDENTIALS, and what else may be typed into the form
AdminEmail == "admin email"

AdminPassword == "admin password"

Emails == {"", AdminEmail, "another email"}

Passwords == {"", AdminPassword, "another password"}

\* the paths of the sidebar's navItems, rendered behind ProtectedRoute
ProtectedPaths ==
  {"/", "/stories", "/articles", "/analytics", "/users", "/categories", "/settings"}

Paths == ProtectedPaths \cup {"/login"}

NoEvent == [event |-> "none", email |-> "", password |-> ""]

EmptyForm == [email |-> "", password |-> ""]

EmptyStorage == [isLoggedIn |-> "null", userData |-> <<>>]

\* JSON.stringify(userData): the text of the object, key by key
JSONstringify(userData) ==
  <<"email", userData.email, "role", userData.role, "name", userData.name>>

\* whether JSON.parse(text) returns (it throws on any other text)
JSONparses(text) ==
  /\ Len(text) = 6
  /\ text[1] = "email" /\ text[3] = "role" /\ text[5] = "name"

\* JSON.parse(text), for a text it accepts
JSONparse(text) ==
  [email |-> text[2], role |-> text[4], name |-> text[6]]

\* a login that looks at the email only
CredentialsMatch_EmailOnly(email, password) ==
  email = AdminEmail

\* login's check: email === ADMIN_CREDENTIALS.email && password === ADMIN_CREDENTIALS.password
CredentialsMatch(email, password) ==
  email = AdminEmail /\ password = AdminPassword

\* a route guard that does not wait for the end of initialisation
ProtectedRoute_SkipsLoading(isLoading, isLoggedIn) ==
  IF ~isLoggedIn THEN "redirect" ELSE "children"

\* what ProtectedRoute returns: the spinner, <Navigate to="/login" /> or its children
ProtectedRoute(isLoading, isLoggedIn) ==
  IF isLoading THEN "spinner"
  ELSE IF ~isLoggedIn THEN "redirect"
  ELSE "children"

\* what LoginPage returns: the spinner, nothing (already logged in) or the form
LoginPage(isLoading, isLoggedIn) ==
  IF isLoading THEN "spinner"
  ELSE IF isLoggedIn THEN "null"
  ELSE "form"

\* the provider as constructed by a page load at `path`, over the storage left
\* by earlier page loads
Mounted(path, storage, last) ==
  [kind |-> "app", isLoggedIn |-> FALSE, user |-> <<>>, error |-> "", isLoading |-> TRUE,
   storage |-> storage, location |-> path, formData |-> EmptyForm, last |-> last]

AuthMounted == auth.kind = "app"

\* what the page shows at the current location
Rendered ==
  IF auth.location = "/login"
  THEN LoginPage(auth.isLoading, auth.isLoggedIn)
  ELSE ProtectedRoute(auth.isLoading, auth.isLoggedIn)

AuthFrame ==
  UNCHANGED <<stories, chapters, storyEdits, now, nextStory, nextChapter, pc, local,
              lastPublish, detached, faults, page, view, upload>>

\* what localStorage may hold before the first login: nothing, the login flag
\* without user data, or the flag with user data that is not JSON
StaleStorages ==
  {EmptyStorage,
   [isLoggedIn |-> "true", userData |-> <<>>],
   [isLoggedIn |-> "true", userData |-> <<"{">>]}

\* the application is opened at `path` in a browser that nobody has logged in from
OpenApp(path, storage) ==
  /\ ~AuthMounted
  /\ auth' = Mounted(path, storage, NoEvent)
  /\ AuthFrame

\* the page is loaded again at `path`: the provider's state is constructed anew,
\* localStorage stays
Reload(path) ==
  /\ AuthMounted
  /\ auth' = Mounted(path, auth.storage, auth.last)
  /\ AuthFrame

\* the mount effect: initializeAuth()
InitializeAuth ==
  /\ AuthMounted
  /\ auth.isLoading
  /\ LET storedLoginState == auth.storage.isLoggedIn
         storedUserData   == auth.storage.userData
     IN auth' =
          IF storedLoginState = "true" /\ storedUserData # <<>>
          THEN IF JSONparses(storedUserData)
               THEN [auth EXCEPT !.isLoggedIn = TRUE,
                                 !.user = <<JSONparse(storedUserData)>>,
                                 !.isLoading = FALSE]
               ELSE [auth EXCEPT !.storage = EmptyStorage, !.isLoading = FALSE]
          ELSE [auth EXCEPT !.isLoading = FALSE]
  /\ AuthFrame

\* LoginPage: handleInputChange on the form's fields
TypeForm(email, password) ==
  /\ AuthMounted
  /\ auth.location = "/login"
  /\ Rendered = "form"
  /\ auth.formData # [email |-> email, password |-> password]
  /\ auth' = [auth EXCEPT !.formData = [email |-> email, password |-> password]]
  /\ AuthFrame

\* login(email, password)
LoginAs(email, password) ==
  IF CredentialsMatch(email, password)
  THEN LET userData == [email |-> email, role |-> "admin", name |-> "Administrator"]
       IN [auth EXCEPT !.error = "",
                       !.isLoggedIn = TRUE,
                       !.user = <<userData>>,
                       !.storage = [isLoggedIn |-> "true", userData |-> JSONstringify(userData)],
                       !.location = "/",
                       !.last = [event |-> "login", email |-> email, password |-> password]]
  ELSE [auth EXCEPT !.error = "Invalid email or password"]

\* LoginPage: handleLogin submits the form
Login ==
  /\ AuthMounted
  /\ auth.location = "/login"
  /\ Rendered = "form"
  /\ auth' = LoginAs(auth.formData.email, auth.formData.password)
  /\ AuthFrame

\* logout(), from the sidebar's button
Logout ==
  /\ AuthMounted
  /\ ~auth.isLoading
  /\ auth.location # "/login"
  /\ auth' = [auth EXCEPT !.isLoggedIn = FALSE, !.user = <<>>, !.error = "",
                          !.storage = EmptyStorage,
                          !.location = "/login", !.formData = EmptyForm,
                          !.last = [event |-> "logout", email |-> "", password |-> ""]]
  /\ AuthFrame

\* a NavLink of the sidebar
NavigateTo(path) ==
  /\ AuthMounted
  /\ auth.location # "/login"
  /\ Rendered = "children"
  /\ path \in ProtectedPaths \ {auth.location}
  /\ auth' = [auth EXCEPT !.location = path]
  /\ AuthFrame

\* ProtectedRoute rendered <Navigate to="/login" />; LoginPage mounts with an
\* empty form and clears the error
RedirectToLogin ==
  /\ AuthMounted
  /\ auth.location # "/login"
  /\ Rendered = "redirect"
  /\ auth' = [auth EXCEPT !.location = "/login", !.formData = EmptyForm, !.error = ""]
  /\ AuthFrame

\* LoginPage's effect: navigate('/') when already logged in
LoginPageRedirect ==
  /\ AuthMounted
  /\ auth.location = "/login"
  /\ auth.isLoggedIn /\ ~auth.isLoading
  /\ auth' = [auth EXCEPT !.location = "/"]
  /\ AuthFrame

AuthNext ==
  \/ \E path \in Paths, storage \in StaleStorages : OpenApp(path, storage)
  \/ \E path \in Paths : Reload(path)
  \/ InitializeAuth
  \/ \E email \in Emails, password \in Passwords : TypeForm(email, password)
  \/ Login
  \/ Logout
  \/ \E path \in ProtectedPaths : NavigateTo(path)
  \/ RedirectToLogin
  \/ LoginPageRedirect

SpecAuth == Init /\ [][AuthNext]_vars

\* ------------------------------------------------------------------ chapter forms
\* CreateChapterPage and EditChapterPage: a form loads the story's chapter list
\* when it is opened and checks the chapter number against that list on save.

\* the chapter numbers an admin types into a form
ChapterNumbers == 1..MaxChapters

\* the larger of two numbers
Max(a, b) == IF a >= b THEN a ELSE b

\* Math.max(...numbers) of a non-empty set of numbers
RECURSIVE MaxOf(_)
MaxOf(numbers) ==
  LET n == CHOOSE x \in numbers : TRUE
  IN IF numbers = {n} THEN n ELSE Max(n, MaxOf(numbers \ {n}))

\* a next number that counts the chapters
getNextChapterNumber_Counts(storyId) ==
  Cardinality(getChaptersByStory(storyId)) + 1

\* getNextChapterNumber(storyId): 1 for a story without chapters, else
\* Math.max(...chapters.map(ch => ch.chapterNumber)) + 1
getNextChapterNumber(storyId) ==
  LET found == getChaptersByStory(storyId)
  IN IF found = {} THEN 1
     ELSE MaxOf({ chapters[c].chapterNumber : c \in found }) + 1

\* the chapter list a form holds: id and chapterNumber of each chapter read
StoryChapters(storyId) ==
  { [id |-> c, chapterNumber |-> chapters[c].chapterNumber] : c \in getChaptersByStory(storyId) }

\* the form's save has succeeded and the form navigates away
Saved(p) ==
  /\ Idle(p)
  /\ local[p].op \in {"createChapter", "updateChapter"}
  /\ local[p].result = "ok"

\* CreateChapterPage mounts: loadData reads the story (a failure leaves the error
\* view, without a form), the story's chapters and the next chapter number.
\* The three reads are taken at one instant: writes of other sessions between
\* them only make the form's list staler
LoadCreatePage(p, storyId) ==
  /\ Idle(p)
  /\ Exists(stories, storyId)
  /\ page' = [page EXCEPT ![p] = [kind |-> "create", storyId |-> storyId, chapterId |-> 0,
                                  storyChapters |-> StoryChapters(storyId),
                                  chapterNumber |-> getNextChapterNumber(storyId)]]
  /\ local' = [local EXCEPT ![p] = NoCall]
  /\ UNCHANGED <<stories, chapters, storyEdits, now, nextStory, nextChapter, pc, lastPublish, detached, faults, view, auth, upload>>

\* CreateChapterPage.handleSave(status) with chapter number num typed in: a
\* number found in the form's chapter list is refused (setError, no call);
\* otherwise addChapter -> createChapter, up to its first await
CreatePageSave(p, status, num, content) ==
  /\ page[p].kind = "create"
  /\ ~Saved(p)
  /\ ~\E c \in page[p].storyChapters : c.chapterNumber = num
  /\ CreateChapterAdd(p, page[p].storyId, num, status, content)

\* EditChapterPage mounts: loadData reads the chapter, its story and the story's
\* chapters (taken at one instant, as for CreateChapterPage)
LoadEditPage(p, chapterId) ==
  /\ Idle(p)
  /\ Exists(chapters, chapterId)
  /\ Exists(stories, chapters[chapterId].storyId)
  /\ page' = [page EXCEPT ![p] = [kind |-> "edit", storyId |-> chapters[chapterId].storyId,
                                  chapterId |-> chapterId,
                                  storyChapters |-> StoryChapters(chapters[chapterId].storyId),
                                  chapterNumber |-> chapters[chapterId].chapterNumber]]
  /\ local' = [local EXCEPT ![p] = NoCall]
  /\ UNCHANGED <<stories, chapters, storyEdits, now, nextStory, nextChapter, pc, lastPublish, detached, faults, view, auth, upload>>

\* EditChapterPage.handleSave(newStatus) with chapter number num typed in: a
\* number another chapter of the form's list has is refused; otherwise
\* updateChapter(chapterId, { title, content, chapterNumber: num, status }),
\* up to the end of its transaction
EditPageSave(p, status, num, content) ==
  /\ page[p].kind = "edit"
  /\ ~Saved(p)
  /\ ~\E c \in page[p].storyChapters : c.chapterNumber = num /\ c.id # page[p].chapterId
  /\ UpdateChapterTxn(p, page[p].chapterId,
                      [status |-> status, hasContent |-> TRUE, content |-> content,
                       chapterNumber |-> num])

\* navigate(`/stories/edit/${storyId}`) after a successful save: the form is gone
PageNavigate(p) ==
  /\ page[p].kind # "none"
  /\ Saved(p)
  /\ page' = [page EXCEPT ![p] = NoPage]
  /\ UNCHANGED <<stories, chapters, storyEdits, now, nextStory, nextChapter, pc, local, lastPublish, detached, faults, view, auth, upload>>

\* what an admin session does: on the stories screen it creates and deletes
\* stories, and it opens, saves and leaves chapter forms
PageCall(p) ==
  \/ page[p].kind = "none" /\ CreateStory(p)
  \/ \E s \in 1..nextStory : page[p].kind = "none" /\ DeleteStoryQuery(p, s)
  \/ \E s \in 1..nextStory : LoadCreatePage(p, s)
  \/ \E c \in 1..nextChapter : LoadEditPage(p, c)
  \/ \E st \in Statuses, n \in ChapterNumbers, c \in Contents : CreatePageSave(p, st, n, c)
  \/ \E st \in Statuses, n \in ChapterNumbers, c \in Contents : EditPageSave(p, st, n, c)
  \/ PageNavigate(p)

\* the pending awaits of the calls made from these screens
PageStep(p) ==
  \/ CountQuery(p)
  \/ CountWrite(p)
  \/ CreateChapterTouch(p)
  \/ UpdateChapterReread(p)
  \/ \E c \in 1..nextChapter : DeleteStoryChapter(p, c)
  \/ DeleteStoryDoc(p)

PageNext == \E p \in Procs : PageCall(p) \/ PageStep(p)

SpecPages == Init /\ [][PageNext]_vars

\* ------------------------------------------------------------------ next chapter number
\* getNextChapterNumber over stores of numbered chapters: every story exists,
\* up to MaxListed chapters exist, each of any story and with any number

MaxListed == MaxChapters + 1

\* the chapter with id c, of story f[c][1] and with number f[c][2], as the
\* sequential calls leave it
ListedChapter(c, f) ==
  [storyId |-> f[c][1], chapterNumber |-> f[c][2], status |-> "draft",
   content |-> <<>>, wordCount |-> 0, updatedAt |-> MaxStories + c]

NumInit ==
  /\ \E ids \in SUBSET (1..MaxListed),
        f \in [1..MaxListed -> (1..MaxStories) \X (1..MaxNumber)] :
       /\ chapters = [c \in ids |-> ListedChapter(c, f)]
       /\ stories = [s \in 1..MaxStories |->
                       [chapters |-> Cardinality({ c \in ids : f[c][1] = s }),
                        updatedAt |-> s]]
  /\ storyEdits = <<>>
  /\ now = MaxStories + MaxListed
  /\ nextStory = MaxStories
  /\ nextChapter = MaxListed
  /\ pc = [p \in Procs |-> "idle"]
  /\ local = [p \in Procs |-> NoCall]
  /\ lastPublish = [s \in 1..MaxStories |-> 0]
  /\ detached = {}
  /\ faults = 0
  /\ page = [p \in Procs |-> NoPage]
  /\ view = [p \in Procs |-> NoView]
  /\ auth = NoAuth
  /\ upload = NoUpload

\* the sessions open CreateChapterPage, which asks for the next chapter number
NumNext == \E p \in Procs : \E s \in 1..nextStory : LoadCreatePage(p, s)

SpecNum == NumInit /\ [][NumNext]_vars

\* ------------------------------------------------------------------ properties
\* the chapter documents that reference story s
LiveChapters(s) == { c \in DOMAIN chapters : chapters[c].storyId = s }

\* the last call of client p was `op` and it returned `result`
Returned(p, op, result) ==
  Idle(p) /\ local[p].op = op /\ local[p].result = result

\* C1: with the calls run one at a time, whenever every call (count follow-up
\* included) has completed, each story's persisted `chapters` equals the number
\* of chapter documents referencing it (0 for a freshly created story)
C1_CountMatchesSequential ==
  Quiescent => \A s \in DOMAIN stories : stories[s].chapters = Cardinality(LiveChapters(s))

\* a createChapter and then a deleteChapter on a story have completed, nothing
\* is in flight, and the story has no chapter left
C1_Witness ==
  /\ Quiescent
  /\ \E p \in Procs :
       /\ Returned(p, "deleteChapter", "ok")
       /\ Exists(stories, local[p].storyId)
       /\ stories[local[p].storyId].chapters = 0
       /\ LiveChapters(local[p].storyId) = {}
       /\ nextChapter >= 1

\* C2: under any interleaving of createChapter / deleteChapter calls, once all
\* calls and their count writes have completed, each story's persisted
\* `chapters` equals the number of chapter documents referencing it
C2_CountMatchesConcurrent ==
  (\A p \in Procs : pc[p] = "idle")
    => \A s \in DOMAIN stories : Cardinality(LiveChapters(s)) = stories[s].chapters
\* ---- steps of the calls, as seen on a transition
\* client p resumes from the await it was suspended at
Resumes(p, labels) == pc[p] \in labels /\ pc'[p] # pc[p]

\* client p's updateChapter transaction commits (its writes become visible)
UpdateChapterCommits(p) == Idle(p) /\ pc'[p] = "uc_reread"

\* any step of an updateChapter call of client p
UpdateChapterStep(p) ==
  \/ UpdateChapterCommits(p)
  \/ Idle(p) /\ Idle(p)' /\ local'[p].op = "updateChapter" /\ local'[p] # local[p]
  \/ Resumes(p, {"uc_reread"})

\* any step of a createChapter call of client p
CreateChapterStep(p) ==
  \/ Idle(p) /\ pc'[p] = "count_query" /\ local'[p].op = "createChapter"
  \/ Resumes(p, {"count_query", "count_write", "cc_touch"}) /\ local[p].op = "createChapter"

\* any step of a deleteChapter call of client p
DeleteChapterStep(p) ==
  \/ Idle(p) /\ local'[p].op = "deleteChapter" /\ (pc'[p] # pc[p] \/ local'[p] # local[p])
  \/ Resumes(p, {"dc_delete", "count_query", "count_write"}) /\ local[p].op = "deleteChapter"

\* the step is a publish transition: the status read by the transaction is not
\* 'published' and the changes set it to 'published'
PublishTransition(p) ==
  /\ UpdateChapterCommits(p)
  /\ chapters[local'[p].chapterId].status # "published"
  /\ local'[p].status = "published"

\* updatedAt of every story is what it was, and no story appears or disappears
UpdatedAtUnchanged ==
  /\ DOMAIN stories' = DOMAIN stories
  /\ \A s \in DOMAIN stories : stories'[s].updatedAt = stories[s].updatedAt

\* C3: an updateChapter that changes the status from a value other than
\* 'published' to 'published' strictly increases the parent story's updatedAt,
\* to the commit time of that transaction, which is also the chapter's updatedAt
C3_PublishBumpsStory ==
  [][\A p \in Procs :
       PublishTransition(p) =>
         LET c == local'[p].chapterId
             s == chapters[c].storyId
         IN /\ Exists(stories, s)
            /\ stories'[s].updatedAt > stories[s].updatedAt
            /\ now' > now
            /\ stories'[s].updatedAt = now'
            /\ chapters'[c].updatedAt = now'
            /\ chapters'[c].status = "published"]_vars

\* a draft chapter has just been published by updateChapter: chapter and story
\* carry the same commit time
C3_Witness ==
  \E p \in Procs :
    /\ pc[p] = "uc_reread"
    /\ local[p].status = "published"
    /\ Exists(chapters, local[p].chapterId)
    /\ Exists(stories, local[p].storyId)
    /\ chapters[local[p].chapterId].status = "published"
    /\ stories[local[p].storyId].updatedAt = chapters[local[p].chapterId].updatedAt

\* C4: no step of updateChapter changes any story document, except the commit
\* of a publish transition (so not published->published, published->draft,
\* draft->draft, nor changes without a status field)
C4_OnlyPublishTouchesStory ==
  [][\A p \in Procs :
       (UpdateChapterStep(p) /\ ~PublishTransition(p)) => stories' = stories]_vars

\* a chapter that was published earlier (when its story was last stamped) has
\* just been updated with status 'published', and the story's updatedAt is older
\* than the chapter's
C4_Witness ==
  \E p \in Procs :
    /\ pc[p] = "uc_reread"
    /\ local[p].status = "published"
    /\ Exists(chapters, local[p].chapterId)
    /\ Exists(stories, local[p].storyId)
    /\ chapters[local[p].chapterId].updatedAt = now
    /\ stories[local[p].storyId].updatedAt < now
    /\ stories[local[p].storyId].updatedAt = lastPublish[local[p].storyId]

\* C5: no step of a createChapter call with status 'draft' (chapter write,
\* count query, count write) changes the updatedAt of a story
C5_DraftCreateKeepsUpdatedAt ==
  [][\A p \in Procs :
       (CreateChapterStep(p) /\ local'[p].status = "draft") => UpdatedAtUnchanged]_vars

\* a createChapter with status 'draft' has returned after writing the count of
\* an existing story
C5_Witness ==
  \E p \in Procs :
    /\ Returned(p, "createChapter", "ok")
    /\ local[p].status = "draft"
    /\ Exists(stories, local[p].storyId)
    /\ stories[local[p].storyId].chapters >= 1
    /\ lastPublish[local[p].storyId] = 0

\* C6: a createChapter call changes a story's updatedAt only if its status is
\* 'published', and then that of its own story, to the commit time; and a call
\* with status 'published' returns successfully only from the step that writes it
C6_CreateTouchesIffPublished ==
  [][\A p \in Procs :
       CreateChapterStep(p) =>
         LET s == local'[p].storyId
         IN /\ ~UpdatedAtUnchanged =>
                 /\ local'[p].status = "published"
                 /\ DOMAIN stories' = DOMAIN stories
                 /\ \A x \in DOMAIN stories \ {s} : stories'[x] = stories[x]
                 /\ now' > now
                 /\ stories'[s].updatedAt = now'
            /\ (Idle(p)' /\ local'[p].result = "ok" /\ local'[p].status = "published") =>
                 /\ Exists(stories, s)
                 /\ now' > now
                 /\ stories'[s].updatedAt = now']_vars

\* a createChapter with status 'published' has just returned successfully
C6_Witness ==
  \E p \in Procs :
    /\ Returned(p, "createChapter", "ok")
    /\ local[p].status = "published"
    /\ Exists(stories, local[p].storyId)
    /\ stories[local[p].storyId].updatedAt = now
    /\ stories[local[p].storyId].chapters >= 1

\* C7: whenever no call is in flight, every story's updatedAt is at least the
\* commit time of the latest change of one of its chapters from a non-published
\* status to 'published', whichever operation made it
C7_UpdatedAtCoversPublishes ==
  Quiescent => \A s \in DOMAIN stories : stories[s].updatedAt >= lastPublish[s]

\* the stories/chapters/storyEdits writes of a step touch at most the `chapters`
\* field of story s
OnlyCountWritten(s) ==
  /\ DOMAIN stories' = DOMAIN stories
  /\ \A x \in DOMAIN stories :
       IF x = s
       THEN stories'[x] = [stories[x] EXCEPT !.chapters = stories'[x].chapters]
       ELSE stories'[x] = stories[x]

\* C8: no step of deleteChapter, and no count write of the count helper
\* (updateStoryChapterCount), changes a story's updatedAt: of the stories they
\* write at most the `chapters` field of the chapter's story
C8_CountWritesOnlyChapters ==
  [][\A p \in Procs :
       (DeleteChapterStep(p) \/ Resumes(p, {"count_write"})) =>
         /\ UpdatedAtUnchanged
         /\ OnlyCountWritten(local[p].storyId)]_vars

\* a deleteChapter has returned after lowering the count of a story that was
\* stamped by the publication of a chapter
C8_Witness ==
  \E p \in Procs :
    /\ Returned(p, "deleteChapter", "ok")
    /\ Exists(stories, local[p].storyId)
    /\ stories[local[p].storyId].chapters = 0
    /\ lastPublish[local[p].storyId] > 0
    /\ stories[local[p].storyId].updatedAt >= lastPublish[local[p].storyId]

\* C9: the commit of an updateChapter whose changes carry non-empty content
\* appends exactly one storyEdits entry, with the chapter's storyId and id; an
\* updateChapter whose changes have no content field appends none, and no other
\* step of an updateChapter call writes storyEdits
C9_OneEditLogEntry ==
  [][\A p \in Procs :
       UpdateChapterStep(p) =>
         IF UpdateChapterCommits(p)
         THEN LET c == local'[p].chapterId
              IN /\ Truthy(local'[p].content) =>
                      storyEdits' = Append(storyEdits,
                                           [storyId |-> chapters[c].storyId,
                                            chapterId |-> c, editedAt |-> now'])
                 /\ ~local'[p].hasContent => storyEdits' = storyEdits
         ELSE storyEdits' = storyEdits]_vars

\* an updateChapter with non-empty content has just committed and its entry is
\* the last of the log
C9_Witness ==
  \E p \in Procs :
    /\ pc[p] = "uc_reread"
    /\ Truthy(local[p].content)
    /\ Len(storyEdits) >= 1
    /\ storyEdits[Len(storyEdits)].chapterId = local[p].chapterId
    /\ storyEdits[Len(storyEdits)].storyId = local[p].storyId
    /\ storyEdits[Len(storyEdits)].editedAt = now

\* C10: the chapter write of an updateChapter and its derived writes become
\* visible in one step: the step that writes the chapter also holds the story
\* bump of a publish transition and the edit-log entry of non-empty content,
\* and no step of the call writes a story or the edit log without the chapter
C10_UpdateChapterAtomic ==
  [][\A p \in Procs :
       UpdateChapterStep(p) =>
         LET c == local'[p].chapterId
             chapterWritten == Exists(chapters, c) /\ chapters'[c] # chapters[c]
         IN /\ (chapterWritten /\ PublishTransition(p)) =>
                 /\ Exists(stories, chapters[c].storyId)
                 /\ stories'[chapters[c].storyId].updatedAt = chapters'[c].updatedAt
            /\ (chapterWritten /\ Truthy(local'[p].content)) =>
                 /\ Len(storyEdits') = Len(storyEdits) + 1
                 /\ storyEdits'[Len(storyEdits')].chapterId = c
                 /\ storyEdits'[Len(storyEdits')].editedAt = chapters'[c].updatedAt
            /\ (stories' # stories \/ storyEdits' # storyEdits) =>
                 /\ chapterWritten
                 /\ chapters'[c].updatedAt = now'
            /\ (chapters' # chapters) => (UpdateChapterCommits(p) /\ chapterWritten)]_vars

\* a transaction that published a chapter and carried content has just
\* committed: chapter, story and the last log entry carry the same commit time
C10_Witness ==
  \E p \in Procs :
    /\ pc[p] = "uc_reread"
    /\ Exists(chapters, local[p].chapterId)
    /\ Exists(stories, local[p].storyId)
    /\ chapters[local[p].chapterId].updatedAt = now
    /\ chapters[local[p].chapterId].status = "published"
    /\ lastPublish[local[p].storyId] = now
    /\ stories[local[p].storyId].updatedAt = now
    /\ Len(storyEdits) >= 1
    /\ storyEdits[Len(storyEdits)].editedAt = now

\* client p starts an updateChapter call (and runs it to the end of its transaction)
UpdateChapterStarts(p) ==
  /\ Idle(p)
  /\ local'[p].op = "updateChapter"
  /\ pc'[p] # pc[p] \/ local'[p] # local[p]

\* the step writes no chapter, story or edit-log document
NoStoreWrite ==
  /\ chapters' = chapters
  /\ stories' = stories
  /\ storyEdits' = storyEdits

\* C11: an updateChapter on a chapter id that resolves to no document returns
\* an error to its caller and writes no chapter, story or edit-log document
C11_MissingChapterNoWrite ==
  [][\A p \in Procs :
       (UpdateChapterStarts(p) /\ ~Exists(chapters, local'[p].chapterId)) =>
         /\ Idle(p)'
         /\ local'[p].result = "error"
         /\ NoStoreWrite]_vars

\* an updateChapter on the id of a deleted chapter has returned an error
C11_Witness ==
  \E p \in Procs :
    /\ Returned(p, "updateChapter", "error")
    /\ local[p].chapterId \in 1..nextChapter
    /\ ~Exists(chapters, local[p].chapterId)
    /\ local[p].storyId = 0

\* C12: an updateChapter whose transaction does not commit (a write of it
\* fails, as the bump of a parent story that has no document, or the store
\* rejects the transaction) returns an error to its caller, and none of its
\* chapter, story or edit-log writes is committed; a publish transition on a
\* chapter whose story has no document never commits
C12_AbortedTransactionNoWrite ==
  [][\A p \in Procs :
       UpdateChapterStarts(p) =>
         LET c == local'[p].chapterId
         IN /\ pc'[p] # "uc_reread" =>
                 /\ Idle(p)'
                 /\ local'[p].result = "error"
                 /\ NoStoreWrite
            /\ ( /\ Exists(chapters, c)
                 /\ chapters[c].status # "published"
                 /\ local'[p].status = "published"
                 /\ ~Exists(stories, chapters[c].storyId) ) =>
                 pc'[p] # "uc_reread"]_vars

\* an updateChapter that would publish an existing chapter of a story without a
\* document has returned an error, and the chapter is still unpublished
C12_Witness ==
  \E p \in Procs :
    /\ Returned(p, "updateChapter", "error")
    /\ local[p].status = "published"
    /\ Exists(chapters, local[p].chapterId)
    /\ chapters[local[p].chapterId].status = "draft"
    /\ chapters[local[p].chapterId].storyId = local[p].storyId
    /\ ~Exists(stories, local[p].storyId)
    /\ faults = 0

\* C13: with the calls run one at a time, when a deleteStory(s) returns
\* successfully, no chapter document references s (getChaptersByStory(s) is
\* empty) and s has no story document (getStoryById(s) throws 'Story not found')
C13_DeleteStoryLeavesNothing ==
  [][\A p \in Procs :
       (Resumes(p, {"ds_story"}) /\ local'[p].result = "ok") =>
         LET s == local[p].storyId
         IN /\ \A c \in DOMAIN chapters' : chapters'[c].storyId # s
            /\ s \notin DOMAIN stories']_vars

\* a deleteStory of a story that had a chapter has returned successfully, and
\* no deleteChapter was the last call of any client
C13_Witness ==
  \E p \in Procs :
    /\ Returned(p, "deleteStory", "ok")
    /\ \A q \in Procs : local[q].op # "deleteChapter"
    /\ nextStory = 1
    /\ nextChapter >= 1
    /\ getChaptersByStory(local[p].storyId) = {}
    /\ ~Exists(stories, local[p].storyId)

\* C14: whenever no call is in flight, every chapter document's storyId refers
\* to an existing story document, under any interleaving of createChapter,
\* deleteChapter and deleteStory calls
C14_NoOrphanedChapters ==
  Quiescent => \A c \in DOMAIN chapters : Exists(stories, chapters[c].storyId)

\* any step of a deleteStory call of client p after its chapter query
DeleteStoryStep(p) ==
  Resumes(p, {"ds_chapters", "ds_story"}) /\ local[p].op = "deleteStory"

\* C15: a deleteStory call deletes the story document only after every chapter
\* deletion it issued has succeeded; when one of them fails the call returns an
\* error and the story document stays; and a deleteStory that returns
\* successfully (a re-invocation after such a failure included) leaves neither
\* a chapter of the story nor the story document
C15_CascadeBeforeStory ==
  [][\A p \in Procs :
       DeleteStoryStep(p) =>
         LET s == local[p].storyId
         IN /\ stories' # stories =>
                 /\ pc[p] = "ds_story"
                 /\ local[p].pending = {}
                 /\ faults' = faults
                 /\ stories' = Remove(stories, s)
            /\ faults' # faults =>
                 /\ Idle(p)'
                 /\ local'[p].result = "error"
                 /\ stories' = stories
            /\ (Idle(p)' /\ local'[p].result = "ok") =>
                 /\ \A c \in DOMAIN chapters' : chapters'[c].storyId # s
                 /\ s \notin DOMAIN stories']_vars

\* a deleteStory failed on a chapter deletion, and a later deleteStory of the
\* same story by the other client has completed the cascade
C15_Witness ==
  \E p, q \in Procs :
    /\ Returned(q, "deleteStory", "error")
    /\ Returned(p, "deleteStory", "ok")
    /\ local[p].storyId = local[q].storyId
    /\ faults >= 1
    /\ nextChapter >= 1
    /\ getChaptersByStory(local[p].storyId) = {}
    /\ ~Exists(stories, local[p].storyId)

\* C16: in every reachable state no two chapter documents of one story have the
\* same chapterNumber, for chapters created and renumbered through the forms'
\* handleSave under any interleaving of the sessions' saves
C16_ChapterNumberUnique ==
  \A c, d \in DOMAIN chapters :
    (c # d /\ chapters[c].storyId = chapters[d].storyId)
      => chapters[c].chapterNumber # chapters[d].chapterNumber

\* the chapter numbers of the chapters of story s
NumbersOf(s) == { chapters[c].chapterNumber : c \in LiveChapters(s) }

\* C17: the next chapter number CreateChapterPage gets from
\* getNextChapterNumber(storyId) is 1 when the story has no chapters, and
\* otherwise one more than a chapter number of the story that no other number
\* of the story exceeds; getting it writes nothing to the store
C17_NextNumberIsMaxPlusOne ==
  [][\A p \in Procs :
       (page'[p] # page[p] /\ page'[p].kind = "create") =>
         LET numbers == NumbersOf(page'[p].storyId)
             next    == page'[p].chapterNumber
         IN /\ numbers = {} => next = 1
            /\ numbers # {} =>
                 /\ next - 1 \in numbers
                 /\ \A n \in numbers : n < next
            /\ NoStoreWrite]_vars

\* one session got 5 for a story whose chapters are numbered {1, 2, 4}, the
\* other got 1 for a story without chapters
C17_Witness ==
  \E p, q \in Procs :
    /\ page[p].kind = "create"
    /\ NumbersOf(page[p].storyId) = {1, 2, 4}
    /\ page[p].chapterNumber = 5
    /\ page[q].kind = "create"
    /\ NumbersOf(page[q].storyId) = {}
    /\ page[q].chapterNumber = 1

\* C18: a deleteChapter first reads the chapter, writing nothing: a missing
\* chapter ends the call with an error, with no delete and no count write;
\* otherwise it then deletes that chapter document, and only after that counts
\* the chapters of the story whose id it read and writes that count to that
\* story and no other
C18_DeleteChapterOrder ==
  [][\A p \in Procs :
       DeleteChapterStep(p) =>
         LET c == local'[p].chapterId
             s == local'[p].storyId
         IN /\ Idle(p) =>
                 /\ NoStoreWrite
                 /\ IF Exists(chapters, c)
                    THEN pc'[p] = "dc_delete" /\ s = chapters[c].storyId
                    ELSE Idle(p)' /\ local'[p].result = "error"
            /\ pc[p] = "dc_delete" =>
                 /\ chapters' = Remove(chapters, c)
                 /\ stories' = stories
                 /\ pc'[p] = "count_query"
                 /\ s = local[p].storyId
            /\ pc[p] = "count_query" =>
                 /\ NoStoreWrite
                 /\ c \notin DOMAIN chapters
                 /\ pc'[p] = "count_write"
                 /\ s = local[p].storyId
                 /\ local'[p].count = Cardinality(LiveChapters(s))
            /\ pc[p] = "count_write" =>
                 /\ chapters' = chapters
                 /\ Idle(p)' /\ local'[p].result = "ok"
                 /\ IF Exists(stories, s)
                    THEN stories' = [stories EXCEPT ![s].chapters = local[p].count]
                    ELSE stories' = stories]_vars

\* one deleteChapter has deleted its chapter and is about to recount a story
\* that still shows the old count; another, on the same chapter id, found no
\* chapter and returned an error
C18_Witness ==
  \E p, q \in Procs :
    /\ pc[p] = "count_query"
    /\ local[p].op = "deleteChapter"
    /\ ~Exists(chapters, local[p].chapterId)
    /\ Exists(stories, local[p].storyId)
    /\ stories[local[p].storyId].chapters > Cardinality(LiveChapters(local[p].storyId))
    /\ Returned(q, "deleteChapter", "error")
    /\ local[q].chapterId = local[p].chapterId

\* C19: no step of the count recomputation of a createChapter or deleteChapter
\* (its chapter query or its count write, failing or not) ends the call with an
\* error or undoes the chapter write: after a failed step the call goes on as
\* after a successful helper, to the story stamp of a published createChapter
\* or else to a successful return
C19_CountFailureSwallowed ==
  [][\A p \in Procs :
       Resumes(p, {"count_query", "count_write"}) =>
         /\ local'[p].result # "error"
         /\ chapters' = chapters
         /\ Idle(p)' => local'[p].result = "ok"
         /\ faults' # faults =>
              /\ stories' = stories
              /\ IF local[p].op = "createChapter" /\ local[p].status = "published"
                 THEN pc'[p] = "cc_touch"
                 ELSE Idle(p)']_vars

\* a createChapter has returned successfully although its count recomputation
\* failed: its chapter exists and the story's count does not include it
C19_Witness ==
  \E p \in Procs :
    /\ Returned(p, "createChapter", "ok")
    /\ faults >= 1
    /\ Quiescent
    /\ Exists(chapters, local[p].chapterId)
    /\ Exists(stories, local[p].storyId)
    /\ chapters[local[p].chapterId].storyId = local[p].storyId
    /\ stories[local[p].storyId].chapters < Cardinality(LiveChapters(local[p].storyId))

\* the number of whitespace-delimited tokens of a content with its tags removed
TokensOf(content) == WordsOf(StripTags(content))

\* C20: when a createChapter writes its chapter, and when an updateChapter whose
\* changes include a content field commits, the chapter's stored wordCount is
\* the number of whitespace-delimited tokens of its stored content with the
\* tags removed, for every content, the empty string included
C20_WordCountMatchesContent ==
  [][\A p \in Procs :
       ( \/ Idle(p) /\ pc'[p] = "count_query" /\ local'[p].op = "createChapter"
         \/ UpdateChapterCommits(p) /\ local'[p].hasContent ) =>
         LET c == local'[p].chapterId
         IN chapters'[c].wordCount = TokensOf(chapters'[c].content)]_vars

\* C21: no step of the chapter and story services (createChapter,
\* updateChapter, deleteChapter, deleteStory, reorderChapters, publishChapters,
\* and the others) modifies or removes a storyEdits entry: the log after the
\* step is the log before it, possibly with entries added at its end
C21_EditLogAppendOnly ==
  [][/\ Len(storyEdits') >= Len(storyEdits)
     /\ \A i \in 1..Len(storyEdits) : storyEdits'[i] = storyEdits[i]]_vars

\* a deleteStory has returned after deleting a story and a chapter whose edit
\* is in the log; the entry is still there
C21_Witness ==
  \E p \in Procs :
    /\ Returned(p, "deleteStory", "ok")
    /\ Len(storyEdits) >= 1
    /\ storyEdits[1].storyId = local[p].storyId
    /\ ~Exists(stories, storyEdits[1].storyId)
    /\ ~Exists(chapters, storyEdits[1].chapterId)

\* the provider functions the claims on notifications and on the chapter list
\* are about: addChapter, updateChapterById, deleteChapterById, deleteStoryById
NotifyingOps == {"createChapter", "updateChapter", "deleteChapter", "deleteStory"}

\* C22: when an addChapter, updateChapter or deleteChapter call of
\* ChapterContext, or a deleteStory call of StoryContext, has failed, it has
\* issued exactly one toast.error, has invoked its service operation exactly
\* once, and has rethrown the error to its caller
C22_OneErrorToastNoRetry ==
  \A p \in Procs :
    (view[p].mounted /\ Idle(p) /\ local[p].op \in NotifyingOps /\ local[p].result = "error")
      => /\ view[p].errors = 1
         /\ view[p].calls = 1
         /\ view[p].thrown

\* a deleteStory made through the provider has failed (the store rejected one
\* of its chapter deletes) and its one notification has been issued
C22_Witness ==
  \E p \in Procs :
    /\ view[p].mounted
    /\ Returned(p, "deleteStory", "error")
    /\ view[p].errors = 1
    /\ view[p].thrown
    /\ ~view[p].loading
    /\ Exists(stories, local[p].storyId)

\* C27: in a session with no other writer, once the initial load has finished
\* and while no provider call has failed, whenever no call is in flight the
\* ids of ChapterContext's `chapters` state are the ids of the chapter
\* documents in the store
C27_ChapterListMatchesStore ==
  \A p \in Procs :
    (Ready(p) /\ ~view[p].failed) => view[p].chapters = DOMAIN chapters

\* the requests of an upload in the order the strategies are to be tried:
\* configured preset with folder; ml_default, upload_preset, default with
\* folder; configured preset without folder; the minimal upload (ml_default,
\* no folder)
ExpectedRequests(preset, folder) ==
  << [preset |-> preset, folder |-> folder],
     [preset |-> "ml_default", folder |-> folder],
     [preset |-> "upload_preset", folder |-> folder],
     [preset |-> "default", folder |-> folder],
     [preset |-> preset, folder |-> "none"],
     [preset |-> "ml_default", folder |-> "none"] >>

\* C23: an uploadImageToCloudinary call for a file that passes validation has
\* sent between one and six requests, which are the first of the strategies in
\* their fixed order; every request before the last one sent has failed; the
\* call has returned exactly when a request succeeded, with the URL of that
\* request's response, and has raised an error exactly when six requests have
\* been sent and all have failed
C23_UploadStrategyOrder ==
  (upload.kind = "call" /\ ValidFile(upload.file)) =>
    LET n        == Len(upload.sent)
        answered == Len(upload.answers)
        expected == ExpectedRequests(upload.preset, upload.folder)
        failures == { i \in 1..answered : ~upload.answers[i] }
    IN /\ n \in 1..6
       /\ \A i \in 1..n : upload.sent[i] = expected[i]
       /\ answered \in {n - 1, n}
       /\ 1..(n - 1) \subseteq failures
       /\ upload.result = "pending" <=> answered = n - 1
       /\ upload.result = "error" <=> failures = 1..6
       /\ upload.result = "ok" <=> (answered = n /\ n \notin failures)
       /\ upload.url = IF upload.result = "ok" THEN n ELSE 0

\* an upload under a configured preset of the deployment has returned the URL
\* of its fifth request, the one with the configured preset and no folder,
\* after four failures, and the call that made it goes on to its store write
C23_Witness ==
  /\ upload.kind = "call"
  /\ upload.preset = "site_preset"
  /\ upload.result = "ok"
  /\ upload.url = 5
  /\ upload.answers = <<FALSE, FALSE, FALSE, FALSE, TRUE>>
  /\ upload.sent[Len(upload.sent)] = [preset |-> "site_preset", folder |-> "none"]
  /\ \E p \in Procs : pc[p] = "cs_add"

\* a step of the upload of a cover image made by a createStory or updateStory
\* call of client p: the call starts, or its pending request is answered
CoverUploadStep(p) ==
  /\ upload' # upload
  /\ \/ Idle(p) /\ local'[p] # local[p]
     \/ Resumes(p, {"upload"})

\* C28: no step of the cover image upload of a createStory or updateStory call
\* adds or changes a story document, and the step at which the upload fails
\* (validation, or the last strategy) ends the call with an error: nothing is
\* written before the upload has returned a URL
C28_FailedUploadWritesNothing ==
  [][\A p \in Procs :
       CoverUploadStep(p) =>
         /\ stories' = stories
         /\ nextStory' = nextStory
         /\ upload'.result = "error" =>
              (Idle(p)' /\ local'[p].result = "error")
         /\ (Idle(p)' /\ local'[p].result = "error") => upload'.result = "error"]_vars

\* an updateStory whose cover image upload failed on all six requests has
\* returned an error and its story is still there, and a createStory with a
\* cover image has failed as well
C28_Witness ==
  \E p, q \in Procs :
    /\ Returned(p, "updateStory", "error")
    /\ Returned(q, "createStory", "error")
    /\ upload.kind = "call"
    /\ upload.result = "error"
    /\ Len(upload.sent) = 6
    /\ Exists(stories, local[p].storyId)
    /\ nextStory = Cardinality(DOMAIN stories)

\* C24: an updateChapter call that raises an error to its caller has committed
\* no write to the chapter, its story or the edit log: the step that raises is
\* never the re-read that follows the call's committed transaction, whatever
\* another operation did to the chapter in between
C24_UpdateErrorMeansNoWrite ==
  [][\A p \in Procs :
       (UpdateChapterStep(p) /\ Idle(p)' /\ local'[p].result = "error") =>
         pc[p] # "uc_reread"]_vars

\* C25: when createChapter raises an error to its caller, the chapter document
\* of that call is not in the store, including when the failing step is the
\* story updatedAt write of a 'published' chapter
C25_CreateErrorMeansNoChapter ==
  [][\A p \in Procs :
       (CreateChapterStep(p) /\ Idle(p)' /\ local'[p].result = "error") =>
         ~Exists(chapters', local'[p].chapterId)]_vars

\* the other session
Other(p) == CHOOSE q \in Procs : q # p

\* session q has committed an updateChapter to 'published' on chapter c and has
\* not yet re-read it
PublishedAwaitingReread(q, c) ==
  /\ pc[q] = "uc_reread"
  /\ local[q].chapterId = c
  /\ local[q].status = "published"

\* C26: of two concurrent updateChapter calls setting 'published' on the same
\* draft chapter, the transaction that commits first observes the draft and
\* writes the story's updatedAt at its commit time, and the one that commits
\* while the first awaits its re-read observes 'published' and leaves every
\* story as it is: exactly one of the two writes the story
C26_OnePublishWritesStory ==
  [][\A p \in Procs :
       UpdateChapterCommits(p) =>
         LET c == local'[p].chapterId
             s == chapters[c].storyId
         IN /\ chapters[c].status = "draft" =>
                 /\ ~PublishedAwaitingReread(Other(p), c)
                 /\ Exists(stories, s)
                 /\ stories'[s].updatedAt = now'
            /\ PublishedAwaitingReread(Other(p), c) =>
                 /\ chapters[c].status = "published"
                 /\ stories' = stories]_vars

\* both sessions have committed their publish of one chapter and await the
\* re-read; the story carries the time of the first commit, the chapter the
\* time of the second
C26_Witness ==
  \E c \in DOMAIN chapters :
    /\ \A p \in Procs : PublishedAwaitingReread(p, c)
    /\ Exists(stories, chapters[c].storyId)
    /\ stories[chapters[c].storyId].updatedAt < chapters[c].updatedAt
    /\ lastPublish[chapters[c].storyId] = stories[chapters[c].storyId].updatedAt

\* C29: once the provider has initialised, isLoggedIn is true exactly when the
\* latest of the successful logins and logouts (page reloads in between or not)
\* is a login, and that login was given the admin email and password; and a
\* login with other credentials changes neither isLoggedIn, user nor localStorage
C29_LoggedInIffLastEventAdminLogin ==
  /\ [](AuthMounted /\ ~auth.isLoading =>
          (auth.isLoggedIn <=>
             /\ auth.last.event = "login"
             /\ auth.last.email = AdminEmail
             /\ auth.last.password = AdminPassword))
  /\ [][(Login /\ ~(auth.formData.email = AdminEmail /\ auth.formData.password = AdminPassword)) =>
          /\ auth'.isLoggedIn = auth.isLoggedIn
          /\ auth'.user = auth.user
          /\ auth'.storage = auth.storage
          /\ auth'.last = auth.last]_vars

\* the page was loaded again after a successful login and has initialised
\* from localStorage: the session is logged in without a login in this page load
C29_Witness ==
  /\ AuthMounted
  /\ ~auth.isLoading
  /\ auth.isLoggedIn
  /\ auth.last.event = "login"
  /\ auth.location \notin {"/", "/login"}
  /\ auth.formData = EmptyForm
  /\ auth.storage.isLoggedIn = "true"

\* C30: at a protected path the children are rendered only when initialisation
\* has finished and the session is logged in; while isLoading the route renders
\* the spinner, and when initialised and not logged in it renders the redirect
\* to /login
C30_ProtectedChildrenOnlyWhenLoggedIn ==
  (AuthMounted /\ auth.location \in ProtectedPaths) =>
    /\ Rendered = "children" <=> (~auth.isLoading /\ auth.isLoggedIn)
    /\ auth.isLoading => Rendered = "spinner"
    /\ (~auth.isLoading /\ ~auth.isLoggedIn) => Rendered = "redirect"

\* a protected page is shown to a logged-in session whose localStorage holds
\* the login
C30_Witness ==
  /\ AuthMounted
  /\ auth.location \in ProtectedPaths
  /\ Rendered = "children"
  /\ auth.storage.isLoggedIn = "true"
  /\ auth.user # <<>>

====
